---- MODULE Spec2Model ----
(***************************************************************************)
(* Model of the interactive session of src/discord_bot.py:                 *)
(* OutputImage and ImageProcessingView (on_timeout, add_output and the two *)
(* button handlers), together with the host message the view renders into. *)
(* asyncio runs a coroutine without interruption between two awaits, so    *)
(* every action below is the code between two suspension points.           *)
(***************************************************************************)
EXTENDS Integers, Sequences, FiniteSets, TLC

\* ------------------------------------------------------------------ bounds
MaxOutputs == 12
MaxSpecial == 1
MaxSmall == 2
MaxTimeouts == 2
MaxClicks == 1
MaxPrompted == 2
MaxImages == 2
MaxPair == 1

\* ------------------------------------------------------- program constants
EmbedLimit == 10
PromptLimit == 100

None == "None"

Views == {"view1", "view2"}
Buttons == {"process_button", "view_outputs_button"}
Paths == {"red.png", "blue.png"}
EditExceptions == {"NotFound", "Forbidden", "HTTPException"}
EditResults == {"ok"} \cup EditExceptions

TimeoutBanner == "Timed out! Here are all your output images:"
FallbackNotice == "Session timed out. An error occurred while displaying output images."

VARIABLES
    outputs,      \* view -> sequence of OutputImage objects (self.outputs)
    message,      \* view -> None or the handle of the message (self.message)
    processing,   \* view -> BOOLEAN (self.processing)
    children,     \* view -> [button -> disabled flag] (item.disabled)
    pc,           \* view -> where on_timeout is suspended: idle, edit, fallback
    calls,        \* view -> number of on_timeout invocations so far
    outcome,      \* view -> how the last on_timeout invocation ended
    edits,        \* view -> number of calls of self.message.edit (call_count)
    last_edit,    \* view -> arguments of the latest such call (call_args)
    shown,        \* view -> the message as the host displays it
    sent,         \* view -> number of interaction responses sent
    last_sent,    \* view -> the latest interaction response
    fs,           \* path -> state of the image file on disk
    req           \* request -> where its message handler stands and what it did

vars == <<outputs, message, processing, children, pc, calls, outcome,
          edits, last_edit, shown, sent, last_sent, fs, req>>

\* ------------------------------------------------------------ pure helpers
Min(a, b) == IF a < b THEN a ELSE b

\* OutputImage.__init__
OutputImage(image_path, prompt, filename) ==
    [image_path |-> image_path, prompt |-> prompt, filename |-> filename,
     image |-> None]

\* Image.open(path): the decoded image of the file at path
ImageOpen(path) == "Image(" \o path \o ")"

\* mutant: load_image opens the file on every call, whatever the cache holds
load_image_reload(o, files) ==
    IF files[o.image_path] # "missing"
    THEN IF files[o.image_path] = "corrupt"
         THEN [output |-> o, img |-> None, raised |-> "UnidentifiedImageError"]
         ELSE [output |-> [o EXCEPT !.image = ImageOpen(o.image_path)],
               img |-> ImageOpen(o.image_path), raised |-> None]
    ELSE [output |-> o, img |-> o.image, raised |-> None]

\* OutputImage.load_image: the object after the call, the value returned and
\* the exception raised (None when it returns)
load_image(o, files) ==
    IF o.image = None /\ files[o.image_path] # "missing"
    THEN IF files[o.image_path] = "corrupt"
         THEN [output |-> o, img |-> None, raised |-> "UnidentifiedImageError"]
         ELSE [output |-> [o EXCEPT !.image = ImageOpen(o.image_path)],
               img |-> ImageOpen(o.image_path), raised |-> None]
    ELSE [output |-> o, img |-> o.image, raised |-> None]


\* mutant: the title numbered from 0, the enumerate index unshifted
OutputTitle_zeroBased(i, n) ==
    "Final Output " \o ToString(i) \o "/" \o ToString(n) \o " (Timed Out)"

\* f"Final Output {i+1}/{len(self.outputs)} (Timed Out)", i the enumerate index
OutputTitle(i, n) ==
    "Final Output " \o ToString(i + 1) \o "/" \o ToString(n) \o " (Timed Out)"


\* mutant: the ellipsis added from 100 characters on
OutputDescription_ellipsisAtLimit(prompt) ==
    <<"Prompt: ">> \o SubSeq(prompt, 1, Min(Len(prompt), PromptLimit))
        \o (IF Len(prompt) >= PromptLimit THEN <<"...">> ELSE <<>>)

\* f"Prompt: {output.prompt[:100]}{'...' if len(output.prompt) > 100 else ''}"
OutputDescription(prompt) ==
    <<"Prompt: ">> \o SubSeq(prompt, 1, Min(Len(prompt), PromptLimit))
        \o (IF Len(prompt) > PromptLimit THEN <<"...">> ELSE <<>>)

\* the embed of one output, with set_image(url=f"attachment://{filename}")
OutputEmbed(o, i, n) ==
    [title |-> OutputTitle(i, n),
     description |-> OutputDescription(o.prompt),
     color |-> "orange",
     image |-> "attachment://" \o o.filename]


\* mutant: every file attached under one fixed name
OutputFile_fixedName(o, img) == [filename |-> "image.png", data |-> img]

\* discord.File(img_buffer, filename=output.filename)
OutputFile(o, img) == [filename |-> o.filename, data |-> img]

NoOutputsEmbed ==
    [title |-> "Session Timed Out",
     description |-> <<"No output images were generated during this session.">>,
     color |-> "orange",
     image |-> None]

\* the "Additional Outputs" embed for n outputs
InfoEmbed(n) ==
    [title |-> "Additional Outputs",
     description |-> <<"Note: ", ToString(n - EmbedLimit),
         " additional output images were generated but cannot be displayed due to Discord's 10-embed limit.">>,
     color |-> "blue",
     image |-> None]

\* self.outputs[:10]
FirstOutputs(outs) == SubSeq(outs, 1, Min(Len(outs), EmbedLimit))


\* mutant: the loop body without its own try/except
InnerCatches_none(exc) == FALSE

\* the inner "except Exception": does it catch the exception exc?
InnerCatches(exc) == TRUE


\* mutant: the outer handler written for discord.NotFound alone
OuterCatches_onlyNotFound(exc) == exc = "NotFound"

\* the outer "except Exception as e": the exceptions of decoding and of
\* message.edit are all subclasses of Exception
OuterCatches(exc) == TRUE


\* mutant: the fallback handler written for discord.NotFound alone
FallbackCatches_onlyNotFound(exc) == exc = "NotFound"

\* the bare "except:" around the fallback edit
FallbackCatches(exc) == TRUE

\* One pass of the loop body for the output at enumerate index i: acc holds
\* the outputs (with their caches), files, embeds and the exception that
\* left the loop, if any.
PrepareOutput(acc, i, files) ==
    LET l == load_image(acc.outputs[i + 1], files)
        outs == [acc.outputs EXCEPT ![i + 1] = l.output]
    IN  IF l.raised # None
        THEN IF InnerCatches(l.raised)
             THEN [acc EXCEPT !.outputs = outs]
             ELSE [acc EXCEPT !.outputs = outs, !.raised = l.raised]
        ELSE IF l.img # None
             THEN [acc EXCEPT !.outputs = outs,
                              !.files = Append(@, OutputFile(l.output, l.img)),
                              !.embeds = Append(@, OutputEmbed(l.output, i, Len(acc.outputs)))]
             ELSE [acc EXCEPT !.outputs = outs]

RECURSIVE PrepareAll(_, _, _)
PrepareAll(acc, i, files) ==
    IF i >= Len(FirstOutputs(acc.outputs)) \/ acc.raised # None
    THEN acc
    ELSE PrepareAll(PrepareOutput(acc, i, files), i + 1, files)


\* mutant: the info embed appended after the output embeds
AddInfoEmbed_append(embeds, n) ==
    IF n > EmbedLimit THEN Append(embeds, InfoEmbed(n)) ELSE embeds

\* embeds.insert(0, info_embed) when len(self.outputs) > 10
AddInfoEmbed(embeds, n) ==
    IF n > EmbedLimit THEN <<InfoEmbed(n)>> \o embeds ELSE embeds


\* mutant: no branch for an empty outputs list
Render_noEmptyCase(outs, files) ==
    LET r == PrepareAll([outputs |-> outs, files |-> <<>>, embeds |-> <<>>,
                         raised |-> None], 0, files)
    IN  IF r.raised # None THEN r
        ELSE [r EXCEPT !.embeds = AddInfoEmbed(@, Len(outs))]

\* mutant: the view keeps only the outputs it has rendered
Render_truncating(outs, files) ==
    LET start == [outputs |-> outs, files |-> <<>>, embeds |-> <<>>,
                  raised |-> None]
    IN  IF outs = <<>>
        THEN [start EXCEPT !.embeds = <<NoOutputsEmbed>>]
        ELSE LET r == PrepareAll(start, 0, files)
             IN  IF r.raised # None THEN r
                 ELSE [r EXCEPT !.embeds = AddInfoEmbed(@, Len(outs)),
                                !.outputs = FirstOutputs(@)]

\* The body of the outer try up to the edit: what on_timeout has built.
Render(outs, files) ==
    LET start == [outputs |-> outs, files |-> <<>>, embeds |-> <<>>,
                  raised |-> None]
    IN  IF outs = <<>>
        THEN [start EXCEPT !.embeds = <<NoOutputsEmbed>>]
        ELSE LET r == PrepareAll(start, 0, files)
             IN  IF r.raised # None THEN r
                 ELSE [r EXCEPT !.embeds = AddInfoEmbed(@, Len(outs))]


\* mutant: the primary edit leaves the view attached
PrimaryEdit_keepView(k, embeds, files) ==
    [call |-> k, passed |-> {"content", "embeds", "attachments"},
     content |-> TimeoutBanner, embeds |-> embeds, attachments |-> files,
     view |-> None]

\* self.message.edit(content=..., embeds=embeds, attachments=files, view=None)
\* issued by invocation k of on_timeout
PrimaryEdit(k, embeds, files) ==
    [call |-> k, passed |-> {"content", "embeds", "attachments", "view"},
     content |-> TimeoutBanner, embeds |-> embeds, attachments |-> files,
     view |-> None]

\* mutant: the fallback edit reports an error without the timeout
FallbackEdit_genericError(k) ==
    [call |-> k, passed |-> {"content", "view"},
     content |-> "An error occurred while displaying output images.",
     embeds |-> <<>>, attachments |-> <<>>, view |-> None]

\* self.message.edit(content=..., view=None)
FallbackEdit(k) ==
    [call |-> k, passed |-> {"content", "view"},
     content |-> FallbackNotice, embeds |-> <<>>, attachments |-> <<>>,
     view |-> None]

\* mutant: the render goes to a message other than the one the view holds
MessageEdit_newMessage(msg, e) ==
    [target |-> "new_message", call |-> e.call, passed |-> e.passed,
     content |-> e.content, embeds |-> e.embeds,
     attachments |-> e.attachments, view |-> e.view]

\* self.message.edit(...): the call e made on the message that self.message
\* refers to
MessageEdit(msg, e) ==
    [target |-> msg, call |-> e.call, passed |-> e.passed,
     content |-> e.content, embeds |-> e.embeds,
     attachments |-> e.attachments, view |-> e.view]

\* for item in self.children: item.disabled = True
DisableChildren(ch) == [c \in DOMAIN ch |-> TRUE]

\* The host applying an accepted edit: only the fields passed change.
ApplyEdit(msg, e) ==
    [content |-> IF "content" \in e.passed THEN e.content ELSE msg.content,
     embeds |-> IF "embeds" \in e.passed THEN e.embeds ELSE msg.embeds,
     attachments |-> IF "attachments" \in e.passed THEN e.attachments ELSE msg.attachments,
     view |-> IF "view" \in e.passed THEN e.view ELSE msg.view]

\* mutant: the text response visible to the whole channel
TextResponse_public(content) == [content |-> content, embed |-> None, ephemeral |-> FALSE]

\* interaction.response.send_message(content, ephemeral=True)
TextResponse(content) == [content |-> content, embed |-> None, ephemeral |-> TRUE]

\* mutant: the summary counts one output less than the view holds
EmbedResponse_offByOne(n) ==
    [content |-> None,
     embed |-> "Generated " \o ToString(n - 1) \o " output image(s) so far.",
     ephemeral |-> TRUE]

\* interaction.response.send_message(embed=embed, ephemeral=True)
EmbedResponse(n) ==
    [content |-> None,
     embed |-> "Generated " \o ToString(n) \o " output image(s) so far.",
     ephemeral |-> TRUE]

\* ------------------------------------------------------------------ inputs
ShortPrompt == <<"T", "e", "s", "t">>

DefaultSample == OutputImage("red.png", ShortPrompt, "test1.png")
BlueSample == OutputImage("blue.png", ShortPrompt, "test2.png")
Samples == {DefaultSample, BlueSample}

\* a prompt of n characters, each one told apart by its position
PromptOf(n) == [i \in 1..n |-> "c" \o ToString(i)]

\* prompt lengths below, at and above the truncation limit
PromptLengths == {0, 50, PromptLimit - 1, PromptLimit, PromptLimit + 1, 150}

PromptSamples == {OutputImage("red.png", PromptOf(n), "test1.png") : n \in PromptLengths}

\* an output other than the default sample (whatever its cache holds)
IsSpecial(o) == [o EXCEPT !.image = None] # DefaultSample

Specials(outs) == Cardinality({i \in 1..Len(outs) : IsSpecial(outs[i])})

\* -------------------------------------------------------------------- init
Requests == {"request1", "request2"}
GenerationResults == {"image", "empty", "raised"}

\* a message the bots have not handled yet
NoRequest ==
    [pc |-> "new", bot |-> None, images |-> 0, interactive |-> FALSE,
     download |-> None, generation |-> None, generation_calls |-> 0,
     output_images |-> 0, view |-> None, edited |-> None, reply |-> None]

NoMessage == [content |-> "", embeds |-> <<>>, attachments |-> <<>>, view |-> None]
NoEdit ==
    [target |-> None, call |-> 0, passed |-> {}, content |-> "", embeds |-> <<>>,
     attachments |-> <<>>, view |-> None]
NoResponse == [content |-> None, embed |-> None, ephemeral |-> FALSE]

\* ImageProcessingView.__init__ for every view; nothing sent, files intact
Init ==
    /\ outputs = [v \in Views |-> <<>>]
    /\ message = [v \in Views |-> None]
    /\ processing = [v \in Views |-> FALSE]
    /\ children = [v \in Views |-> [c \in Buttons |-> FALSE]]
    /\ pc = [v \in Views |-> "idle"]
    /\ calls = [v \in Views |-> 0]
    /\ outcome = [v \in Views |-> None]
    /\ edits = [v \in Views |-> 0]
    /\ last_edit = [v \in Views |-> NoEdit]
    /\ shown = [v \in Views |-> NoMessage]
    /\ sent = [v \in Views |-> 0]
    /\ last_sent = [v \in Views |-> NoResponse]
    /\ fs = [p \in Paths |-> "ok"]
    /\ req = [r \in Requests |-> NoRequest]

\* ----------------------------------------------------------------- actions
\* mutant: add_output puts the new output first
add_output_prepend(v, o) ==
    /\ outputs' = [outputs EXCEPT ![v] = <<o>> \o @]
    /\ UNCHANGED <<message, processing, children, pc, calls, outcome,
                   edits, last_edit, shown, sent, last_sent, fs,
                   req>>

\* mutant: outputs is one list shared by every view (a class attribute)
add_output_sharedList(v, o) ==
    /\ outputs' = [w \in Views |-> Append(outputs[w], o)]
    /\ UNCHANGED <<message, processing, children, pc, calls, outcome,
                   edits, last_edit, shown, sent, last_sent, fs, req>>

\* ImageProcessingView.add_output
add_output(v, o) ==
    /\ outputs' = [outputs EXCEPT ![v] = Append(@, o)]
    /\ UNCHANGED <<message, processing, children, pc, calls, outcome,
                   edits, last_edit, shown, sent, last_sent, fs,
                   req>>

\* The message is sent (or edited) with view=view and then assigned to
\* view.message; no await lies between the two.
send_with_view(v) ==
    /\ message[v] = None
    /\ message' = [message EXCEPT ![v] = "message_of_" \o v]
    /\ shown' = [shown EXCEPT ![v] =
                    [content |-> "original", embeds |-> <<>>,
                     attachments |-> <<>>, view |-> v]]
    /\ UNCHANGED <<outputs, processing, children, pc, calls, outcome,
                   edits, last_edit, sent, last_sent, fs, req>>

\* The host delivers the message with the view attached; the coroutine that
\* sent it has not yet resumed to assign view.message.
send_view_message(v) ==
    /\ message[v] = None /\ shown[v] = NoMessage
    /\ shown' = [shown EXCEPT ![v] =
                    [content |-> "original", embeds |-> <<>>,
                     attachments |-> <<>>, view |-> v]]
    /\ UNCHANGED <<outputs, message, processing, children, pc, calls, outcome,
                   edits, last_edit, sent, last_sent, fs, req>>

\* view.message = message, once the sending coroutine resumes
assign_message(v) ==
    /\ message[v] = None /\ shown[v].view = v
    /\ message' = [message EXCEPT ![v] = "message_of_" \o v]
    /\ UNCHANGED <<outputs, processing, children, pc, calls, outcome,
                   edits, last_edit, shown, sent, last_sent, fs, req>>

\* mutant: on_timeout returns without an edit when the view has no outputs
on_timeout_skipEmpty(v) ==
    /\ pc[v] = "idle"
    /\ calls' = [calls EXCEPT ![v] = @ + 1]
    /\ children' = [children EXCEPT ![v] = DisableChildren(@)]
    /\ IF message[v] = None \/ outputs[v] = <<>>
       THEN /\ outcome' = [outcome EXCEPT ![v] = "returned"]
            /\ UNCHANGED <<outputs, pc, edits, last_edit>>
       ELSE LET r == Render(outputs[v], fs)
                k == calls[v] + 1
            IN  /\ outputs' = [outputs EXCEPT ![v] = r.outputs]
                /\ IF r.raised = None
                   THEN /\ edits' = [edits EXCEPT ![v] = @ + 1]
                        /\ last_edit' = [last_edit EXCEPT ![v] =
                                MessageEdit(message[v],
                                            PrimaryEdit(k, r.embeds, r.files))]
                        /\ pc' = [pc EXCEPT ![v] = "edit"]
                        /\ UNCHANGED outcome
                   ELSE IF OuterCatches(r.raised)
                   THEN /\ edits' = [edits EXCEPT ![v] = @ + 1]
                        /\ last_edit' = [last_edit EXCEPT ![v] =
                                MessageEdit(message[v], FallbackEdit(k))]
                        /\ pc' = [pc EXCEPT ![v] = "fallback"]
                        /\ UNCHANGED outcome
                   ELSE /\ outcome' = [outcome EXCEPT ![v] = "raised"]
                        /\ UNCHANGED <<pc, edits, last_edit>>
    /\ UNCHANGED <<message, processing, shown, sent, last_sent, fs, req>>


\* mutant: on_timeout without the check of self.message
on_timeout_noMessageCheck(v) ==
    /\ pc[v] = "idle"
    /\ calls' = [calls EXCEPT ![v] = @ + 1]
    /\ children' = [children EXCEPT ![v] = DisableChildren(@)]
    /\ IF FALSE
       THEN /\ outcome' = [outcome EXCEPT ![v] = "returned"]
            /\ UNCHANGED <<outputs, pc, edits, last_edit>>
       ELSE LET r == Render(outputs[v], fs)
                k == calls[v] + 1
            IN  /\ outputs' = [outputs EXCEPT ![v] = r.outputs]
                /\ IF r.raised = None
                   THEN /\ edits' = [edits EXCEPT ![v] = @ + 1]
                        /\ last_edit' = [last_edit EXCEPT ![v] =
                                MessageEdit(message[v],
                                            PrimaryEdit(k, r.embeds, r.files))]
                        /\ pc' = [pc EXCEPT ![v] = "edit"]
                        /\ UNCHANGED outcome
                   ELSE IF OuterCatches(r.raised)
                   THEN /\ edits' = [edits EXCEPT ![v] = @ + 1]
                        /\ last_edit' = [last_edit EXCEPT ![v] =
                                MessageEdit(message[v], FallbackEdit(k))]
                        /\ pc' = [pc EXCEPT ![v] = "fallback"]
                        /\ UNCHANGED outcome
                   ELSE /\ outcome' = [outcome EXCEPT ![v] = "raised"]
                        /\ UNCHANGED <<pc, edits, last_edit>>
    /\ UNCHANGED <<message, processing, shown, sent, last_sent, fs, req>>

\* on_timeout from its start to its first await (or to its return)
on_timeout(v) ==
    /\ pc[v] = "idle"
    /\ calls' = [calls EXCEPT ![v] = @ + 1]
    /\ children' = [children EXCEPT ![v] = DisableChildren(@)]
    /\ IF message[v] = None
       THEN /\ outcome' = [outcome EXCEPT ![v] = "returned"]
            /\ UNCHANGED <<outputs, pc, edits, last_edit>>
       ELSE LET r == Render(outputs[v], fs)
                k == calls[v] + 1
            IN  /\ outputs' = [outputs EXCEPT ![v] = r.outputs]
                /\ IF r.raised = None
                   THEN /\ edits' = [edits EXCEPT ![v] = @ + 1]
                        /\ last_edit' = [last_edit EXCEPT ![v] =
                                MessageEdit(message[v],
                                            PrimaryEdit(k, r.embeds, r.files))]
                        /\ pc' = [pc EXCEPT ![v] = "edit"]
                        /\ UNCHANGED outcome
                   ELSE IF OuterCatches(r.raised)
                   THEN /\ edits' = [edits EXCEPT ![v] = @ + 1]
                        /\ last_edit' = [last_edit EXCEPT ![v] =
                                MessageEdit(message[v], FallbackEdit(k))]
                        /\ pc' = [pc EXCEPT ![v] = "fallback"]
                        /\ UNCHANGED outcome
                   ELSE /\ outcome' = [outcome EXCEPT ![v] = "raised"]
                        /\ UNCHANGED <<pc, edits, last_edit>>
    /\ UNCHANGED <<message, processing, shown, sent, last_sent, fs, req>>

\* mutant: the embeds are built from outputs when the edit completes
primary_edit_done_rerender(v, res) ==
    /\ pc[v] = "edit"
    /\ IF res = "ok"
       THEN /\ shown' = [shown EXCEPT ![v] = ApplyEdit(@,
                        PrimaryEdit(calls[v], Render(outputs[v], fs).embeds,
                                    Render(outputs[v], fs).files))]
            /\ pc' = [pc EXCEPT ![v] = "idle"]
            /\ outcome' = [outcome EXCEPT ![v] = "returned"]
            /\ UNCHANGED <<edits, last_edit>>
       ELSE IF OuterCatches(res)
       THEN /\ edits' = [edits EXCEPT ![v] = @ + 1]
            /\ last_edit' = [last_edit EXCEPT ![v] =
                    MessageEdit(message[v], FallbackEdit(calls[v]))]
            /\ pc' = [pc EXCEPT ![v] = "fallback"]
            /\ UNCHANGED <<shown, outcome>>
       ELSE /\ pc' = [pc EXCEPT ![v] = "idle"]
            /\ outcome' = [outcome EXCEPT ![v] = "raised"]
            /\ UNCHANGED <<shown, edits, last_edit>>
    /\ UNCHANGED <<outputs, message, processing, children, calls,
                   sent, last_sent, fs, req>>

\* the awaited primary edit completes: accepted, or rejected with an exception
primary_edit_done(v, res) ==
    /\ pc[v] = "edit"
    /\ IF res = "ok"
       THEN /\ shown' = [shown EXCEPT ![v] = ApplyEdit(@, last_edit[v])]
            /\ pc' = [pc EXCEPT ![v] = "idle"]
            /\ outcome' = [outcome EXCEPT ![v] = "returned"]
            /\ UNCHANGED <<edits, last_edit>>
       ELSE IF OuterCatches(res)
       THEN /\ edits' = [edits EXCEPT ![v] = @ + 1]
            /\ last_edit' = [last_edit EXCEPT ![v] =
                    MessageEdit(message[v], FallbackEdit(calls[v]))]
            /\ pc' = [pc EXCEPT ![v] = "fallback"]
            /\ UNCHANGED <<shown, outcome>>
       ELSE /\ pc' = [pc EXCEPT ![v] = "idle"]
            /\ outcome' = [outcome EXCEPT ![v] = "raised"]
            /\ UNCHANGED <<shown, edits, last_edit>>
    /\ UNCHANGED <<outputs, message, processing, children, calls,
                   sent, last_sent, fs, req>>

\* mutant: a rejected fallback edit is issued once more
fallback_edit_done_retry(v, res) ==
    /\ pc[v] = "fallback"
    /\ pc' = [pc EXCEPT ![v] = "idle"]
    /\ outcome' = [outcome EXCEPT ![v] = "returned"]
    /\ IF res = "ok"
       THEN /\ shown' = [shown EXCEPT ![v] = ApplyEdit(@, last_edit[v])]
            /\ UNCHANGED edits
       ELSE /\ edits' = [edits EXCEPT ![v] = @ + 1]
            /\ UNCHANGED shown
    /\ UNCHANGED <<outputs, message, processing, children, calls,
                   last_edit, sent, last_sent, fs, req>>

\* the awaited fallback edit completes
fallback_edit_done(v, res) ==
    /\ pc[v] = "fallback"
    /\ pc' = [pc EXCEPT ![v] = "idle"]
    /\ IF res = "ok"
       THEN /\ shown' = [shown EXCEPT ![v] = ApplyEdit(@, last_edit[v])]
            /\ outcome' = [outcome EXCEPT ![v] = "returned"]
       ELSE /\ outcome' = [outcome EXCEPT ![v] =
                    IF FallbackCatches(res) THEN "returned" ELSE "raised"]
            /\ UNCHANGED shown
    /\ UNCHANGED <<outputs, message, processing, children, calls,
                   edits, last_edit, sent, last_sent, fs, req>>

\* mutant: process_button marks the view as processing
process_button_setsFlag(v) ==
    /\ sent' = [sent EXCEPT ![v] = @ + 1]
    /\ last_sent' = [last_sent EXCEPT ![v] =
            IF processing[v]
            THEN TextResponse("Already processing an image. Please wait...")
            ELSE TextResponse("Image processing feature would be implemented here.")]
    /\ processing' = [processing EXCEPT ![v] = TRUE]
    /\ UNCHANGED <<outputs, message, children, pc, calls, outcome,
                   edits, last_edit, shown, fs, req>>

\* ImageProcessingView.process_button
process_button(v) ==
    /\ sent' = [sent EXCEPT ![v] = @ + 1]
    /\ last_sent' = [last_sent EXCEPT ![v] =
            IF processing[v]
            THEN TextResponse("Already processing an image. Please wait...")
            ELSE TextResponse("Image processing feature would be implemented here.")]
    /\ UNCHANGED <<outputs, message, processing, children, pc, calls, outcome,
                   edits, last_edit, shown, fs, req>>

\* ImageProcessingView.view_outputs_button
view_outputs_button(v) ==
    /\ sent' = [sent EXCEPT ![v] = @ + 1]
    /\ last_sent' = [last_sent EXCEPT ![v] =
            IF outputs[v] = <<>>
            THEN TextResponse("No output images generated yet.")
            ELSE EmbedResponse(Len(outputs[v]))]
    /\ UNCHANGED <<outputs, message, processing, children, pc, calls, outcome,
                   edits, last_edit, shown, fs, req>>

\* The environment: an image file is deleted or overwritten with garbage.
damage_file(p, s) ==
    /\ fs[p] = "ok"
    /\ fs' = [fs EXCEPT ![p] = s]
    /\ UNCHANGED <<outputs, message, processing, children, pc, calls, outcome,
                   edits, last_edit, shown, sent, last_sent, req>>

\* ---------------------------------------- the message handlers of the bots
\* the reply sent by the except clauses of on_message for exception exc
ErrorReply(exc) ==
    IF exc = "NotFound" THEN "Could not find the message you replied to."
    ELSE IF exc = "Forbidden" THEN "I don't have permission to access that message."
    ELSE "An unexpected error occurred. Please try again later."

\* the request after processing_message.edit(content=...) was awaited with
\* the host answering res; a rejection reaches the except clauses
EditProcessingMessage(q, content, res) ==
    IF res = "ok"
    THEN [q EXCEPT !.edited = content]
    ELSE [q EXCEPT !.edited = content, !.reply = ErrorReply(res)]


\* mutant: a failed generation is run a second time
modify_image_with_replicate_retry(gen) ==
    [calls |-> IF gen = "image" THEN 1 ELSE 2,
     path |-> IF gen = "image" THEN "red.png" ELSE None]

\* ImageModificationBot.modify_image_with_replicate: the number of calls of
\* replicate_client.run and the path returned, for the answer gen of the API
modify_image_with_replicate(gen) ==
    [calls |-> 1, path |-> IF gen = "image" THEN "red.png" ELSE None]

\* the embed of the edit that delivers the image in interactive mode
ProcessedEmbed(o) ==
    [title |-> "Image Processing Complete",
     description |-> <<"Generated image with prompt: ">> \o o.prompt,
     color |-> "green",
     image |-> "attachment://" \o o.filename]

\* on_message (src/discord_bot.py), for a reply that mentions the bot, from
\* its start to the await of download_image; the replied message has
\* `images` image attachments
on_message(r, fetched, images, has_prompt, interactive) ==
    /\ req[r].pc = "new"
    /\ req' = [req EXCEPT ![r] =
         IF fetched # "ok"
         THEN [@ EXCEPT !.pc = "done", !.bot = "ImageModificationBot", !.images = images,
                        !.reply = ErrorReply(fetched)]
         ELSE IF images = 0
         THEN [@ EXCEPT !.pc = "done", !.bot = "ImageModificationBot", !.images = images,
                        !.reply = "I need an image to modify. Please reply to a message that contains an image."]
         ELSE IF ~has_prompt
         THEN [@ EXCEPT !.pc = "done", !.bot = "ImageModificationBot", !.images = images,
                        !.reply = "Please provide a description of how you want to modify the image."]
         ELSE [@ EXCEPT !.pc = "download", !.bot = "ImageModificationBot", !.images = images,
                        !.interactive = interactive,
                        !.reply = "Processing your image modification request..."]]
    /\ UNCHANGED <<outputs, message, processing, children, pc, calls, outcome,
                   edits, last_edit, shown, sent, last_sent, fs>>

\* on_message from the return of download_image to its next await:
\* modify_image_with_replicate has no await inside, so the generation runs
\* in the same step; v is the view that ImageProcessingView() creates
download_image_done(r, v, dl, gen, res) ==
    /\ req[r].pc = "download"
    /\ outputs[v] = <<>> /\ message[v] = None
    /\ IF dl = "failed"
       THEN /\ req' = [req EXCEPT ![r] =
                 EditProcessingMessage(
                     [@ EXCEPT !.pc = "done", !.download = dl],
                     "Failed to download the image. Please try again.", res)]
            /\ UNCHANGED outputs
       ELSE LET g == modify_image_with_replicate(gen)
                q == [req[r] EXCEPT !.download = dl, !.generation = gen,
                                    !.generation_calls = @ + g.calls]
            IN  IF g.path = None
                THEN /\ req' = [req EXCEPT ![r] =
                          EditProcessingMessage(
                              [q EXCEPT !.pc = "done"],
                              "Failed to modify the image. Please try again later.", res)]
                     /\ UNCHANGED outputs
                ELSE IF q.interactive
                THEN /\ req' = [req EXCEPT ![r] =
                          [q EXCEPT !.pc = "view_edit", !.output_images = @ + 1,
                                    !.view = v,
                                    !.edited = "Image processed! Use the buttons below to interact:"]]
                     /\ outputs' = [outputs EXCEPT ![v] =
                          Append(@, OutputImage(g.path, ShortPrompt, "modified_input.png"))]
                ELSE /\ req' = [req EXCEPT ![r] =
                          [q EXCEPT !.pc = "simple_edit", !.output_images = @ + 1,
                                    !.edited = "Here's your modified image with prompt"]]
                     /\ UNCHANGED outputs
    /\ UNCHANGED <<message, processing, children, pc, calls, outcome,
                   edits, last_edit, shown, sent, last_sent, fs>>

\* mutant: the edited message is never assigned to view.message
processing_edit_done_noAssign(r, res) ==
    /\ req[r].pc \in {"view_edit", "simple_edit"}
    /\ req' = [req EXCEPT ![r] =
         IF res = "ok" THEN [@ EXCEPT !.pc = "done"]
         ELSE [@ EXCEPT !.pc = "done", !.reply = ErrorReply(res)]]
    /\ IF res = "ok" /\ req[r].pc = "view_edit"
       THEN LET v == req[r].view
            IN  /\ UNCHANGED message
                /\ shown' = [shown EXCEPT ![v] =
                       [content |-> req[r].edited,
                        embeds |-> <<ProcessedEmbed(outputs[v][1])>>,
                        attachments |-> <<OutputFile(outputs[v][1], "file")>>,
                        view |-> v]]
       ELSE UNCHANGED <<message, shown>>
    /\ UNCHANGED <<outputs, processing, children, pc, calls, outcome,
                   edits, last_edit, sent, last_sent, fs>>

\* on_message from the return of the edit that delivers the image to its end:
\* in interactive mode view.message is assigned when the edit is accepted
processing_edit_done(r, res) ==
    /\ req[r].pc \in {"view_edit", "simple_edit"}
    /\ req' = [req EXCEPT ![r] =
         IF res = "ok" THEN [@ EXCEPT !.pc = "done"]
         ELSE [@ EXCEPT !.pc = "done", !.reply = ErrorReply(res)]]
    /\ IF res = "ok" /\ req[r].pc = "view_edit"
       THEN LET v == req[r].view
            IN  /\ message' = [message EXCEPT ![v] = "message_of_" \o v]
                /\ shown' = [shown EXCEPT ![v] =
                       [content |-> req[r].edited,
                        embeds |-> <<ProcessedEmbed(outputs[v][1])>>,
                        attachments |-> <<OutputFile(outputs[v][1], "file")>>,
                        view |-> v]]
       ELSE UNCHANGED <<message, shown>>
    /\ UNCHANGED <<outputs, processing, children, pc, calls, outcome,
                   edits, last_edit, sent, last_sent, fs>>

\* the request after an edit of processing_msg inside the try of
\* modify_image_with_flux: a rejection res is caught there and answered with
\* the "Error generating image" edit, whose own rejection res2 reaches the
\* handler of handle_image_modification, which replies
FluxEdit(q, content, res, res2) ==
    IF res = "ok" THEN [q EXCEPT !.edited = content]
    ELSE IF res2 = "ok" THEN [q EXCEPT !.edited = "Error generating image"]
    ELSE [q EXCEPT !.edited = "Error generating image",
                   !.reply = "An error occurred while processing your request"]

\* mutant: with several images the first one is taken
FluxImageCheck_firstOfMany(attachments, images) ==
    IF attachments = 0
    THEN "The message you're replying to doesn't contain any images."
    ELSE IF images = 0
    THEN "No valid image found in the referenced message."
    ELSE None

\* the validation of the replied message in handle_image_modification: the
\* error replied, or None for exactly one image among the attachments
FluxImageCheck(attachments, images) ==
    IF attachments = 0
    THEN "The message you're replying to doesn't contain any images."
    ELSE IF images = 0
    THEN "No valid image found in the referenced message."
    ELSE IF images > 1
    THEN "Please reply to a message with exactly one image. Multiple images are not supported."
    ELSE None

\* FluxBot.handle_image_modification (src/bot.py), for a reply that mentions
\* the bot, from its start to the await of save_input_image; the replied
\* message has `attachments` attachments, `images` of them images
handle_image_modification(r, attachments, images, has_prompt) ==
    /\ req[r].pc = "new"
    /\ images <= attachments
    /\ req' = [req EXCEPT ![r] =
         IF FluxImageCheck(attachments, images) # None
         THEN [@ EXCEPT !.pc = "done", !.bot = "FluxBot", !.images = images,
                        !.reply = FluxImageCheck(attachments, images)]
         ELSE IF ~has_prompt
         THEN [@ EXCEPT !.pc = "done", !.bot = "FluxBot", !.images = images,
                        !.reply = "Please provide a description of how you want to modify the image."]
         ELSE [@ EXCEPT !.pc = "flux_save", !.bot = "FluxBot", !.images = images,
                        !.reply = "Processing your image modification request..."]]
    /\ UNCHANGED <<outputs, message, processing, children, pc, calls, outcome,
                   edits, last_edit, shown, sent, last_sent, fs>>

\* from the return of save_input_image to the await of the "Generating"
\* edit in modify_image_with_flux (or to the end after a failed download)
save_input_image_done(r, dl, res) ==
    /\ req[r].pc = "flux_save"
    /\ req' = [req EXCEPT ![r] =
         IF dl = "failed"
         THEN LET q == [@ EXCEPT !.pc = "done", !.download = dl,
                                 !.edited = "Failed to download input image. Please try again."]
              IN  IF res = "ok" THEN q
                  ELSE [q EXCEPT !.reply = "An error occurred while processing your request"]
         ELSE [@ EXCEPT !.pc = "flux_status_edit", !.download = dl,
                        !.edited = "Generating modified image with Flux AI..."]]
    /\ UNCHANGED <<outputs, message, processing, children, pc, calls, outcome,
                   edits, last_edit, shown, sent, last_sent, fs>>

\* from the return of the "Generating" edit through replicate_client.run to
\* the next await: the download of the generated image, or a notice edit
flux_status_edit_done(r, status, gen, res, res2) ==
    /\ req[r].pc = "flux_status_edit"
    /\ req' = [req EXCEPT ![r] =
         IF status # "ok"
         THEN FluxEdit([@ EXCEPT !.pc = "done"], "Error generating image", "ok", res2)
         ELSE LET q == [@ EXCEPT !.generation = gen,
                                 !.generation_calls = @ + 1]
              IN  IF gen = "image" THEN [q EXCEPT !.pc = "flux_fetch"]
                  ELSE IF gen = "empty"
                  THEN FluxEdit([q EXCEPT !.pc = "done"],
                                "Failed to generate image. Please try again.", res, res2)
                  ELSE FluxEdit([q EXCEPT !.pc = "done"],
                                "Error generating image", res, res2)]
    /\ UNCHANGED <<outputs, message, processing, children, pc, calls, outcome,
                   edits, last_edit, shown, sent, last_sent, fs>>

\* from the answer to the download of the generated image to the end
flux_fetch_done(r, fetched, res, res2) ==
    /\ req[r].pc = "flux_fetch"
    /\ req' = [req EXCEPT ![r] =
         FluxEdit([@ EXCEPT !.pc = "done"],
                  IF fetched = "ok" THEN "Here's your modified image!"
                  ELSE "Failed to download the generated image.", res, res2)]
    /\ UNCHANGED <<outputs, message, processing, children, pc, calls, outcome,
                   edits, last_edit, shown, sent, last_sent, fs>>

\* ---------------------------------------------------------- specifications
MainViews == {"view1"}
Damage == {"missing", "corrupt"}

\* Spec: one session with few outputs, every interleaving of add_output, the
\* buttons, repeated on_timeout invocations and the host's answers.
Next ==
    \/ \E v \in MainViews, o \in Samples :
            Len(outputs[v]) < MaxSmall /\ add_output(v, o)
    \/ \E v \in MainViews : send_with_view(v)
    \/ \E v \in MainViews : calls[v] < MaxTimeouts /\ on_timeout(v)
    \/ \E v \in MainViews, res \in EditResults : primary_edit_done(v, res)
    \/ \E v \in MainViews, res \in EditResults : fallback_edit_done(v, res)
    \/ \E v \in MainViews : sent[v] < MaxClicks /\ process_button(v)
    \/ \E v \in MainViews : sent[v] < MaxClicks /\ view_outputs_button(v)
    \/ \E p \in Paths, s \in Damage : damage_file(p, s)

Spec == Init /\ [][Next]_vars

\* SpecRender: one session that accumulates up to MaxOutputs outputs and is
\* then timed out once by the host (the idle timeout fires once per view).
CanAdd(v, o) ==
    /\ calls[v] = 0
    /\ Len(outputs[v]) < MaxOutputs
    /\ IsSpecial(o) => Specials(outputs[v]) < MaxSpecial

NextRender ==
    \/ \E v \in MainViews, o \in Samples : CanAdd(v, o) /\ add_output(v, o)
    \/ \E v \in MainViews : send_with_view(v)
    \/ \E v \in MainViews : calls[v] = 0 /\ on_timeout(v)
    \/ \E v \in MainViews, res \in EditResults : primary_edit_done(v, res)
    \/ \E v \in MainViews, res \in EditResults : fallback_edit_done(v, res)
    \/ \E s \in Damage : damage_file("blue.png", s)

SpecRender == Init /\ [][NextRender]_vars

\* SpecPrompt: the description on_timeout writes, for prompts of the lengths
\* in PromptLengths.
NextPrompt ==
    \/ \E v \in MainViews, o \in PromptSamples :
            calls[v] = 0 /\ Len(outputs[v]) < MaxPrompted /\ add_output(v, o)
    \/ \E v \in MainViews : send_with_view(v)
    \/ \E v \in MainViews : calls[v] = 0 /\ on_timeout(v)
    \/ \E v \in MainViews, res \in EditResults : primary_edit_done(v, res)
    \/ \E v \in MainViews, res \in EditResults : fallback_edit_done(v, res)

SpecPrompt == Init /\ [][NextPrompt]_vars

\* SpecMessage: two user requests, each handled by either bot, with every
\* answer of the download, of the generation API and of the host.
Downloads == {"ok", "failed"}
FetchResults == {"ok", "NotFound", "Forbidden"}
ImageCounts == 0..MaxImages

\* view = ImageProcessingView(): a view that no request has created yet
NewView == CHOOSE v \in Views : \A r \in Requests : req[r].view # v

NextMessage ==
    \/ \E r \in Requests, f \in FetchResults, n \in ImageCounts,
          has_prompt \in BOOLEAN, interactive \in BOOLEAN :
            on_message(r, f, n, has_prompt, interactive)
    \/ \E r \in Requests, dl \in Downloads, gen \in GenerationResults,
          res \in EditResults :
            download_image_done(r, NewView, dl, gen, res)
    \/ \E r \in Requests, res \in EditResults : processing_edit_done(r, res)
    \/ \E r \in Requests, a \in ImageCounts, n \in ImageCounts,
          has_prompt \in BOOLEAN :
            handle_image_modification(r, a, n, has_prompt)
    \/ \E r \in Requests, dl \in Downloads, res \in EditResults :
            save_input_image_done(r, dl, res)
    \/ \E r \in Requests, status \in EditResults, gen \in GenerationResults,
          res \in EditResults, res2 \in EditResults :
            flux_status_edit_done(r, status, gen, res, res2)
    \/ \E r \in Requests, f \in Downloads, res \in EditResults,
          res2 \in EditResults :
            flux_fetch_done(r, f, res, res2)

SpecMessage == Init /\ [][NextMessage]_vars

\* SpecPair: two sessions side by side, each with its own outputs, message,
\* buttons and single timeout.
NextPair ==
    \/ \E v \in Views :
            calls[v] = 0 /\ Len(outputs[v]) < MaxPair /\ add_output(v, DefaultSample)
    \/ \E v \in Views : send_with_view(v)
    \/ \E v \in Views : calls[v] = 0 /\ on_timeout(v)
    \/ \E v \in Views, res \in EditResults : primary_edit_done(v, res)
    \/ \E v \in Views, res \in EditResults : fallback_edit_done(v, res)
    \/ \E v \in Views : sent[v] < MaxPair /\ process_button(v)
    \/ \E v \in Views : sent[v] < MaxPair /\ view_outputs_button(v)

SpecPair == Init /\ [][NextPair]_vars

\* SpecRace: the message is delivered with the view, which starts the idle
\* timer, and view.message is assigned in a later step; the timer fires once,
\* before or after the assignment.
NextRace ==
    \/ \E v \in MainViews, o \in Samples :
            Len(outputs[v]) < MaxSmall /\ add_output(v, o)
    \/ \E v \in MainViews : send_view_message(v)
    \/ \E v \in MainViews : assign_message(v)
    \/ \E v \in MainViews :
            calls[v] = 0 /\ shown[v].view = v /\ on_timeout(v)
    \/ \E v \in MainViews, res \in EditResults : primary_edit_done(v, res)
    \/ \E v \in MainViews, res \in EditResults : fallback_edit_done(v, res)
    \/ \E p \in Paths, s \in Damage : damage_file(p, s)

SpecRace == Init /\ [][NextRace]_vars

\* SpecLive: one session as the host drives it. The idle timer of a view runs
\* from the moment the view is attached to a sent message and fires once;
\* an awaited message.edit is an HTTP request that completes or raises, and
\* the event loop then resumes on_timeout (weak fairness of the two
\* continuations).
NextLive ==
    \/ \E v \in MainViews, o \in Samples :
            Len(outputs[v]) < MaxSmall /\ add_output(v, o)
    \/ \E v \in MainViews : send_with_view(v)
    \/ \E v \in MainViews :
            message[v] # None /\ calls[v] = 0 /\ on_timeout(v)
    \/ \E v \in MainViews, res \in EditResults : primary_edit_done(v, res)
    \/ \E v \in MainViews, res \in EditResults : fallback_edit_done(v, res)
    \/ \E p \in Paths, s \in Damage : damage_file(p, s)

SpecLive ==
    /\ Init /\ [][NextLive]_vars
    /\ \A v \in MainViews :
        /\ WF_vars(\E res \in EditResults : primary_edit_done(v, res))
        /\ WF_vars(\E res \in EditResults : fallback_edit_done(v, res))

\* ------------------------------------------------------------------ claims
\* on_timeout has run to its end at least once for view v
HasTimedOut(v) == calls[v] > 0 /\ pc[v] = "idle"

\* this step is an invocation of on_timeout on view v with its message set
TimeoutStep(v) == calls'[v] = calls[v] + 1 /\ message[v] # None

\* load_image will hand on_timeout an image for o: cached, or decodable
Decodable(o, files) == o.image # None \/ files[o.image_path] = "ok"

AllDecodable(v) == \A i \in 1..Len(outputs[v]) : Decodable(outputs[v][i], fs)

\* the outputs as records, whatever their caches hold
Records(outs) == [i \in 1..Len(outs) |-> [outs[i] EXCEPT !.image = None]]

\* C1: once an invocation of on_timeout has edited the message and returned,
\* a second invocation edits nothing more (one edit in total) and does not
\* raise.
C1_FinalizeIdempotent ==
    [][\A v \in Views :
        (HasTimedOut(v) /\ edits[v] > 0) =>
            (edits'[v] = edits[v] /\ outcome'[v] # "raised")]_vars

\* C2: after on_timeout has run, add_output appends nothing: outputs stays
\* the sequence it was at finalization.
C2_NoOutputAfterTimeout ==
    [][\A v \in Views :
        HasTimedOut(v) => Records(outputs'[v]) = Records(outputs[v])]_vars

\* C3: after on_timeout has run, a button handler sends no response, edits
\* no message and changes no session state.
C3_ButtonsIgnoredAfterTimeout ==
    [][\A v \in Views :
        HasTimedOut(v) => (sent'[v] = sent[v] /\ last_sent'[v] = last_sent[v])]_vars

\* C4: on_timeout on a view with a message and no outputs edits the message
\* with exactly one embed, which says that no output images were generated,
\* and with no attachment.
C4_NoOutputsRender ==
    [][\A v \in Views :
        (TimeoutStep(v) /\ outputs[v] = <<>>) =>
            /\ edits'[v] = edits[v] + 1
            /\ Len(last_edit'[v].embeds) = 1
            /\ last_edit'[v].embeds[1].description =
                 <<"No output images were generated during this session.">>
            /\ last_edit'[v].attachments = <<>>]_vars

C4_Witness ==
    \E v \in Views :
        /\ pc[v] = "edit" /\ outputs[v] = <<>>
        /\ Len(last_edit[v].embeds) = 1 /\ last_edit[v].attachments = <<>>

\* C5: on_timeout on a view with n outputs, 1 <= n <= 10, all decodable, edits
\* the message with n embeds and n attachments; embed i is titled
\* "Final Output i/n (Timed Out)" and shows the file of output i.
C5_RenderUpToTen ==
    [][\A v \in Views :
        LET n == Len(outputs[v])
            e == last_edit'[v]
        IN  (TimeoutStep(v) /\ n >= 1 /\ n <= EmbedLimit /\ AllDecodable(v)) =>
                /\ edits'[v] = edits[v] + 1
                /\ Len(e.embeds) = n
                /\ Len(e.attachments) = n
                /\ \A i \in 1..n :
                    /\ e.embeds[i].title =
                         "Final Output " \o ToString(i) \o "/" \o ToString(n)
                             \o " (Timed Out)"
                    /\ e.embeds[i].image = "attachment://" \o outputs[v][i].filename
                    /\ e.attachments[i].filename = outputs[v][i].filename]_vars

C5_Witness ==
    \E v \in Views :
        /\ pc[v] = "edit" /\ Len(outputs[v]) = EmbedLimit
        /\ \E i \in 1..Len(outputs[v]) : outputs[v][i].filename = "test2.png"
        /\ \A i \in 1..Len(outputs[v]) : outputs[v][i].image # None
        /\ Len(last_edit[v].embeds) = EmbedLimit
        /\ Len(last_edit[v].attachments) = EmbedLimit

\* C6: on_timeout on a view with n > 10 outputs, all decodable, builds 11
\* embeds and 10 attachments: first the notice of n - 10 additional outputs,
\* then the embeds of outputs 1..10 in order; outputs 11..n give nothing.
C6_RenderOverflow ==
    [][\A v \in Views :
        LET n == Len(outputs[v])
            e == last_edit'[v]
        IN  (TimeoutStep(v) /\ n > EmbedLimit /\ AllDecodable(v)) =>
                /\ edits'[v] = edits[v] + 1
                /\ Len(e.embeds) = EmbedLimit + 1
                /\ Len(e.attachments) = EmbedLimit
                /\ e.embeds[1].title = "Additional Outputs"
                /\ e.embeds[1].description[2] = ToString(n - EmbedLimit)
                /\ \A i \in 1..EmbedLimit :
                    /\ e.embeds[i + 1].title =
                         "Final Output " \o ToString(i) \o "/" \o ToString(n)
                             \o " (Timed Out)"
                    /\ e.embeds[i + 1].image =
                         "attachment://" \o outputs[v][i].filename
                    /\ e.attachments[i].filename = outputs[v][i].filename]_vars

C6_Witness ==
    \E v \in Views :
        /\ pc[v] = "edit" /\ Len(outputs[v]) = EmbedLimit + 2
        /\ \A i \in 1..EmbedLimit : outputs[v][i].image # None
        /\ Len(last_edit[v].embeds) = EmbedLimit + 1
        /\ last_edit[v].embeds[1].title = "Additional Outputs"
        /\ Len(last_edit[v].attachments) = EmbedLimit

\* C7: no edit issued by on_timeout carries more than 10 embeds.
C7_AtMostTenEmbeds ==
    \A v \in Views : Len(last_edit[v].embeds) <= EmbedLimit

\* C8 (as stated): after a finalization that issued an edit, the message is
\* never shown with controls.
C8_NoControlsAfterTimeout ==
    \A v \in Views :
        (HasTimedOut(v) /\ edits[v] > 0) => shown[v].view = None

\* C8 (amended): every edit issued by on_timeout passes view=None with every
\* child already disabled, and once the host has accepted one of these edits
\* the message shows no controls.
C8_EditsStripControls ==
    \A v \in Views :
        /\ edits[v] > 0 =>
            /\ "view" \in last_edit[v].passed
            /\ last_edit[v].view = None
            /\ \A c \in Buttons : children[v][c]
        /\ shown[v].content \in {TimeoutBanner, FallbackNotice} =>
            shown[v].view = None

C8_Witness ==
    \E v \in Views :
        /\ HasTimedOut(v)
        /\ shown[v].content = TimeoutBanner
        /\ shown[v].view = None
        /\ \A c \in Buttons : children[v][c]

C10_NeverRaises ==
    \A v \in Views :
        /\ outcome[v] # "raised"
        /\ HasTimedOut(v) => outcome[v] = "returned"

C10_Witness ==
    \E v \in Views :
        /\ HasTimedOut(v) /\ calls[v] = 1 /\ edits[v] = 2
        /\ outcome[v] = "returned"
        /\ shown[v].content = "original"
        /\ \E i \in 1..Len(outputs[v]) :
            outputs[v][i].image = None /\ fs[outputs[v][i].image_path] = "corrupt"

\* the indices, among the first ten outputs of v, that on_timeout can decode
OkIndices(v) ==
    {i \in 1..Min(Len(outputs[v]), EmbedLimit) : Decodable(outputs[v][i], fs)}

\* the k-th smallest member of the set of indices S
NthOf(S, k) == CHOOSE i \in S : Cardinality({j \in S : j <= i}) = k

\* the embeds of outputs in an edit e of n outputs: all but the leading
\* "Additional Outputs" embed
OutputEmbedsOf(e, n) ==
    IF n > EmbedLimit /\ e.embeds # <<>> THEN Tail(e.embeds) ELSE e.embeds

\* C11: on_timeout on a view with outputs, some of whose first ten cannot be
\* decoded, still issues the primary edit and does not raise; the edit holds
\* one embed and one attachment for each of the first ten outputs that can be
\* decoded, in insertion order, and nothing for the others.
C11_SkipsFailedOutputs ==
    [][\A v \in Views :
        LET n == Len(outputs[v])
            ok == OkIndices(v)
            e == last_edit'[v]
            shownEmbeds == OutputEmbedsOf(e, n)
        IN  (TimeoutStep(v) /\ n >= 1) =>
                /\ edits'[v] = edits[v] + 1
                /\ pc'[v] = "edit"
                /\ outcome'[v] # "raised"
                /\ e.content = TimeoutBanner
                /\ Len(shownEmbeds) = Cardinality(ok)
                /\ Len(e.attachments) = Cardinality(ok)
                /\ \A k \in 1..Cardinality(ok) :
                    LET i == NthOf(ok, k)
                    IN  /\ shownEmbeds[k].title =
                              "Final Output " \o ToString(i) \o "/" \o ToString(n)
                                  \o " (Timed Out)"
                        /\ shownEmbeds[k].image =
                              "attachment://" \o outputs[v][i].filename
                        /\ e.attachments[k].filename = outputs[v][i].filename]_vars

\* three outputs whose second cannot be decoded: two embeds, two attachments
C11_Witness ==
    \E v \in Views :
        /\ pc[v] = "edit" /\ Len(outputs[v]) = 3
        /\ outputs[v][2].image = None /\ fs[outputs[v][2].image_path] = "corrupt"
        /\ outputs[v][1].image # None /\ outputs[v][3].image # None
        /\ Len(last_edit[v].embeds) = 2
        /\ Len(last_edit[v].attachments) = 2
        /\ last_edit[v].embeds[2].title = "Final Output 3/3 (Timed Out)"

\* C12 (as stated): once on_timeout has run for a session with its message
\* set, the message shows a finalized render.
C12_RenderApplied ==
    \A v \in Views :
        HasTimedOut(v) => shown[v].content \in {TimeoutBanner, FallbackNotice}

\* C12 (amended): an invocation of on_timeout for a session with its message
\* set, with or without outputs, leads to the state where on_timeout has
\* returned, the controls are disabled and a finalized edit has been issued;
\* the message shows a finalized render unless the host rejected both edits.
C12_TimeoutCompletes ==
    \A v \in Views :
        (calls[v] > 0) ~>
            /\ HasTimedOut(v)
            /\ outcome[v] = "returned"
            /\ \A c \in Buttons : children[v][c]
            /\ edits[v] > 0
            /\ last_edit[v].content \in {TimeoutBanner, FallbackNotice}
            /\ \/ shown[v].content \in {TimeoutBanner, FallbackNotice}
               \/ edits[v] = 2 /\ shown[v].content = "original"

\* a session without outputs, finalized: banner shown, controls gone
C12_Witness ==
    \E v \in Views :
        /\ HasTimedOut(v) /\ outputs[v] = <<>>
        /\ \A c \in Buttons : children[v][c]
        /\ shown[v].content = TimeoutBanner
        /\ Len(shown[v].embeds) = 1
        /\ shown[v].view = None

\* C13: the description of an output's embed is "Prompt: " followed by the
\* first 100 characters of the prompt, followed by "..." exactly when the
\* prompt is longer than 100 characters; a prompt of at most 100 characters
\* appears whole, with no ellipsis.
C13_PromptTruncated ==
    [][\A v \in Views :
        TimeoutStep(v) =>
            \A i \in 1..Len(outputs[v]) :
                LET prompt == outputs[v][i].prompt
                    d == last_edit'[v].embeds[i].description
                IN  /\ d[1] = "Prompt: "
                    /\ IF Len(prompt) > PromptLimit
                       THEN /\ Len(d) = PromptLimit + 2
                            /\ \A j \in 1..PromptLimit : d[j + 1] = prompt[j]
                            /\ d[PromptLimit + 2] = "..."
                       ELSE Tail(d) = prompt]_vars

\* a prompt of 150 characters rendered as 100 characters and the ellipsis
C13_Witness ==
    \E v \in Views :
        /\ pc[v] = "edit" /\ Len(outputs[v]) >= 1
        /\ Len(outputs[v][1].prompt) = 150
        /\ Len(last_edit[v].embeds[1].description) = PromptLimit + 2
        /\ last_edit[v].embeds[1].description[PromptLimit + 1] = "c100"
        /\ last_edit[v].embeds[1].description[PromptLimit + 2] = "..."

\* the indices, among the first ten outputs of v, whose image is loaded
LoadedIndices(v) ==
    {i \in 1..Min(Len(outputs[v]), EmbedLimit) : outputs[v][i].image # None}

\* C14: in an edit of on_timeout for a session with outputs, the output
\* embeds (the "Additional Outputs" embed apart) are as many as the
\* attachments, and the k-th output embed and the k-th attachment belong to
\* the same output: the attachment has the output's filename and image, the
\* embed's image is "attachment://" followed by that filename.
C14_EmbedsPairedWithAttachments ==
    \A v \in Views :
        LET e == last_edit[v]
            shownEmbeds == OutputEmbedsOf(e, Len(outputs[v]))
        IN  (edits[v] > 0 /\ outputs[v] # <<>>) =>
                /\ Len(shownEmbeds) = Len(e.attachments)
                /\ "embeds" \in e.passed => Len(shownEmbeds) = Cardinality(LoadedIndices(v))
                /\ \A k \in 1..Len(shownEmbeds) :
                    LET o == outputs[v][NthOf(LoadedIndices(v), k)]
                    IN  /\ e.attachments[k].filename = o.filename
                        /\ e.attachments[k].data = o.image
                        /\ shownEmbeds[k].image =
                              "attachment://" \o e.attachments[k].filename

\* more than ten outputs, the edit accepted: eleven embeds, ten attachments
C14_Witness ==
    \E v \in Views :
        /\ HasTimedOut(v) /\ Len(outputs[v]) > EmbedLimit
        /\ shown[v].content = TimeoutBanner
        /\ Len(shown[v].embeds) = EmbedLimit + 1
        /\ Len(shown[v].attachments) = EmbedLimit
        /\ shown[v].embeds[2].image = "attachment://" \o shown[v].attachments[1].filename

\* C15: a view starts with no outputs, and every step either leaves the
\* records of its outputs as they are or adds one record at the end: nothing
\* is removed, replaced or reordered, by add_output, by a button or by
\* on_timeout.
C15_OutputsAppendOnly ==
    /\ \A v \in Views : outputs[v] = <<>>
    /\ [][\A v \in Views :
            \/ Records(outputs'[v]) = Records(outputs[v])
            \/ /\ Len(outputs'[v]) = Len(outputs[v]) + 1
               /\ SubSeq(Records(outputs'[v]), 1, Len(outputs[v])) = Records(outputs[v])
               /\ outputs'[v][Len(outputs'[v])] \in Samples
               /\ sent'[v] = sent[v] /\ calls'[v] = calls[v]]_vars

\* two different outputs added, in the order of the calls, a button pressed
C15_Witness ==
    \E v \in Views :
        /\ Records(outputs[v]) = <<DefaultSample, BlueSample>>
        /\ sent[v] > 0
        /\ calls[v] = 0

\* C16: the message reference of a view, once set, is never assigned again;
\* no step of on_timeout assigns it; every edit on_timeout issues is made on
\* the message the view refers to, and the host's message changes during
\* on_timeout only by that edit being applied.
C16_OneMessageEditedInPlace ==
    [][\A v \in Views :
        /\ message[v] # None => message'[v] = message[v]
        /\ (calls'[v] # calls[v] \/ pc[v] # "idle") =>
              /\ message'[v] = message[v]
              /\ shown'[v] # shown[v] =>
                    /\ last_edit[v].target = message[v]
                    /\ shown'[v] = ApplyEdit(shown[v], last_edit[v])
        /\ edits'[v] > edits[v] =>
              /\ message[v] # None
              /\ last_edit'[v].target = message[v]]_vars

\* one timeout, its edit made on the view's message and accepted
C16_Witness ==
    \E v \in Views :
        /\ HasTimedOut(v) /\ edits[v] = 1
        /\ message[v] = "message_of_" \o v
        /\ last_edit[v].target = message[v]
        /\ shown[v].content = TimeoutBanner

C19_ContentSaysTimedOut ==
    \A v \in Views :
        /\ edits[v] > 0 =>
              /\ "content" \in last_edit[v].passed
              /\ IF "embeds" \in last_edit[v].passed
                 THEN last_edit[v].content =
                        "Timed out! Here are all your output images:"
                 ELSE last_edit[v].content =
                        "Session timed out. An error occurred while displaying output images."
        /\ shown[v].content \in
              {"", "original", "Timed out! Here are all your output images:",
               "Session timed out. An error occurred while displaying output images."}

\* a session with outputs whose message shows the fallback notice
C19_Witness ==
    \E v \in Views :
        /\ HasTimedOut(v) /\ outputs[v] # <<>>
        /\ "embeds" \notin last_edit[v].passed
        /\ shown[v].content = FallbackNotice
        /\ shown[v].view = None

\* C20: a request whose download failed has made no generation call, and a
\* request whose generation gave nothing usable has made exactly one; either
\* way the handler has ended with a failure notice as the last edit of the
\* processing message, no OutputImage and no view were created for it, and a
\* view holds outputs only if some request created it. No request makes
\* more than one generation call.
C20_FailureAbandonsRequest ==
    \A r \in Requests :
        LET q == req[r]
            failed == q.download = "failed" \/ q.generation \in {"empty", "raised"}
        IN  /\ q.generation_calls <= 1
            /\ q.download = "failed" =>
                  /\ q.generation_calls = 0 /\ q.generation = None
                  /\ q.edited \in
                       {"Failed to download the image. Please try again.",
                        "Failed to download input image. Please try again."}
            /\ q.generation \in {"empty", "raised"} =>
                  /\ q.generation_calls = 1
                  /\ q.edited \in
                       {"Failed to modify the image. Please try again later.",
                        "Failed to generate image. Please try again.",
                        "Error generating image"}
            /\ failed =>
                  /\ q.pc = "done"
                  /\ q.output_images = 0
                  /\ q.view = None
            /\ \A v \in Views :
                  (outputs[v] # <<>> \/ message[v] # None) =>
                      \E r2 \in Requests :
                          req[r2].view = v /\ req[r2].generation = "image"

\* an interactive request whose generation returned nothing, and a FluxBot
\* request whose download failed
C20_Witness ==
    \E r1, r2 \in Requests :
        /\ req[r1].bot = "ImageModificationBot" /\ req[r1].interactive
        /\ req[r1].generation = "empty" /\ req[r1].generation_calls = 1
        /\ req[r1].edited = "Failed to modify the image. Please try again later."
        /\ req[r1].view = None
        /\ req[r2].bot = "FluxBot" /\ req[r2].download = "failed"
        /\ req[r2].generation_calls = 0
        /\ \A v \in Views : outputs[v] = <<>>

\* C21: an OutputImage is constructed with image None; a load_image made by
\* on_timeout on an output without cached image stores the decoded image when
\* the file can be decoded and stores nothing otherwise; on an output with a
\* cached image it keeps the cache, whatever has become of the file, and
\* hands that cached image to the attachment; image_path, prompt and
\* filename never change.
C21_LoadImageLazyCached ==
    /\ \A o \in Samples : o.image = None
    /\ [][\A v \in Views :
            TimeoutStep(v) =>
                \A i \in 1..Min(Len(outputs[v]), EmbedLimit) :
                    LET o == outputs[v][i]
                        o2 == outputs'[v][i]
                        files == last_edit'[v].attachments
                    IN  /\ [o2 EXCEPT !.image = None] = [o EXCEPT !.image = None]
                        /\ o.image # None =>
                              /\ o2.image = o.image
                              /\ \E k \in 1..Len(files) :
                                    files[k] = [filename |-> o.filename, data |-> o.image]
                        /\ (o.image = None /\ fs[o.image_path] = "ok") =>
                              o2.image = ImageOpen(o.image_path)
                        /\ (o.image = None /\ fs[o.image_path] # "ok") =>
                              o2.image = None]_vars

\* second invocation: the file of a cached output is gone and the output is
\* attached all the same
C21_Witness ==
    \E v \in Views :
        /\ calls[v] = 2 /\ pc[v] = "edit" /\ Len(outputs[v]) = 1
        /\ outputs[v][1].image = ImageOpen(outputs[v][1].image_path)
        /\ fs[outputs[v][1].image_path] = "missing"
        /\ last_edit[v].call = 2
        /\ Len(last_edit[v].attachments) = 1
        /\ last_edit[v].attachments[1].data = outputs[v][1].image

\* the state of session v: what the view holds and what its handlers did
SessionState(v) ==
    <<outputs[v], message[v], processing[v], children[v], pc[v], calls[v],
      outcome[v], edits[v], last_edit[v], shown[v], sent[v], last_sent[v]>>

\* C22: a step that changes the state of one view (add_output, on_timeout
\* and its edits, a button) leaves the outputs, message reference,
\* processing flag and control states of every other view as they were.
C22_SessionsIndependent ==
    [][\A v, w \in Views :
        (v # w /\ SessionState(v)' # SessionState(v)) =>
            /\ outputs'[w] = outputs[w]
            /\ message'[w] = message[w]
            /\ processing'[w] = processing[w]
            /\ children'[w] = children[w]
            /\ shown'[w] = shown[w]]_vars

\* one view timed out without outputs, the other still active with an output
C22_Witness ==
    /\ HasTimedOut("view1") /\ outputs["view1"] = <<>>
    /\ \A c \in Buttons : children["view1"][c]
    /\ shown["view1"].content = TimeoutBanner
    /\ calls["view2"] = 0 /\ Len(outputs["view2"]) = 1
    /\ message["view2"] # None /\ sent["view2"] > 0
    /\ \A c \in Buttons : ~children["view2"][c]
    /\ shown["view2"].view = "view2"

\* this step belongs to on_timeout on view v: its invocation, or the return
\* of one of its awaited edits
OnTimeoutStep(v) == calls'[v] # calls[v] \/ pc'[v] # pc[v]

\* C23: a step of on_timeout leaves outputs with the same length and, place
\* by place, the same image_path, prompt and filename; the only field it
\* writes is the image cache of an output among the first ten that had none,
\* which receives the decoded image of that output's file.
C23_RenderReadOnly ==
    [][\A v \in Views :
        OnTimeoutStep(v) =>
            /\ Len(outputs'[v]) = Len(outputs[v])
            /\ \A i \in 1..Len(outputs[v]) :
                LET o == outputs[v][i]
                    o2 == outputs'[v][i]
                IN  /\ o2.image_path = o.image_path
                    /\ o2.prompt = o.prompt
                    /\ o2.filename = o.filename
                    /\ o2.image # o.image =>
                          /\ o.image = None
                          /\ i <= EmbedLimit
                          /\ o2.image = ImageOpen(o.image_path)]_vars

\* twelve outputs after the timeout: ten decoded, the last two untouched
C23_Witness ==
    \E v \in Views :
        /\ HasTimedOut(v) /\ Len(outputs[v]) = EmbedLimit + 2
        /\ \A i \in 1..EmbedLimit : outputs[v][i].image # None
        /\ \A i \in (EmbedLimit + 1)..(EmbedLimit + 2) : outputs[v][i].image = None
        /\ Records(outputs[v])[EmbedLimit + 2] = BlueSample

\* the two texts process_button answers with
ProcessTexts ==
    {"Already processing an image. Please wait...",
     "Image processing feature would be implemented here."}

\* this step sends an interaction response for view v, not yet timed out
ResponseStep(v) == sent'[v] = sent[v] + 1 /\ calls[v] = 0

\* C24: a response of an active view other than process_button's is the
\* answer of view_outputs_button: ephemeral, the text "No output images
\* generated yet." when outputs is empty and otherwise an embed whose count
\* is the length of outputs; the step changes neither outputs nor the
\* message and issues no edit.
C24_ViewOutputsSummary ==
    [][\A v \in Views :
        (ResponseStep(v) /\ last_sent'[v].content \notin ProcessTexts) =>
            /\ last_sent'[v].ephemeral
            /\ IF outputs[v] = <<>>
               THEN /\ last_sent'[v].content = "No output images generated yet."
                    /\ last_sent'[v].embed = None
               ELSE /\ last_sent'[v].content = None
                    /\ last_sent'[v].embed =
                         "Generated " \o ToString(Len(outputs[v]))
                             \o " output image(s) so far."
            /\ outputs'[v] = outputs[v]
            /\ message'[v] = message[v]
            /\ edits'[v] = edits[v]
            /\ shown'[v] = shown[v]]_vars

\* the summary of two outputs
C24_Witness ==
    \E v \in Views :
        /\ calls[v] = 0 /\ Len(outputs[v]) = 2 /\ sent[v] = 1
        /\ last_sent[v].embed = "Generated 2 output image(s) so far."
        /\ last_sent[v].ephemeral

\* C25: every step sends at most one response; a response of an active view
\* with one of process_button's texts is ephemeral, is the busy notice when
\* processing is true and the stub acknowledgment otherwise, and the step
\* changes neither outputs nor processing nor the message and issues no
\* edit.
C25_ProcessButtonResponse ==
    [][\A v \in Views :
        /\ sent'[v] \in {sent[v], sent[v] + 1}
        /\ (ResponseStep(v) /\ last_sent'[v].content \in ProcessTexts) =>
            /\ last_sent'[v].ephemeral
            /\ last_sent'[v].embed = None
            /\ last_sent'[v].content =
                 IF processing[v]
                 THEN "Already processing an image. Please wait..."
                 ELSE "Image processing feature would be implemented here."
            /\ outputs'[v] = outputs[v]
            /\ processing'[v] = processing[v]
            /\ message'[v] = message[v]
            /\ edits'[v] = edits[v]
            /\ shown'[v] = shown[v]]_vars

\* the stub acknowledgment sent for a view that holds an output
C25_Witness ==
    \E v \in Views :
        /\ calls[v] = 0 /\ outputs[v] # <<>> /\ sent[v] = 1
        /\ last_sent[v] = [content |-> "Image processing feature would be implemented here.",
                           embed |-> None, ephemeral |-> TRUE]
        /\ ~processing[v]

\* the generation of request r succeeded in on_message in interactive mode
InteractiveSuccess(q) ==
    /\ q.bot = "ImageModificationBot" /\ q.interactive
    /\ q.download = "ok" /\ q.generation = "image"

\* a request has a view exactly when it is an interactive request of
\* on_message whose generation succeeded; the view holds exactly one output,
\* the generated image, and belongs to that request alone; no view has
\* outputs or a message without such a request
SessionOnlyOnSuccess ==
    /\ \A r \in Requests :
        LET q == req[r]
            v == q.view
        IN  /\ (q.pc \in {"view_edit", "simple_edit", "done"} /\ InteractiveSuccess(q))
                  <=> v # None
            /\ v # None =>
                  /\ Len(outputs[v]) = 1
                  /\ outputs[v][1].image_path = modify_image_with_replicate("image").path
                  /\ outputs[v][1].filename = "modified_input.png"
                  /\ q.output_images = 1
                  /\ q.pc = "view_edit" => message[v] = None
                  /\ \A r2 \in Requests : (r2 # r) => req[r2].view # v
    /\ \A v \in Views :
        (outputs[v] # <<>> \/ message[v] # None) =>
            \E r \in Requests : req[r].view = v

\* the view of request q is attached: its message reference is set, to the
\* edited processing message, which shows the view
Attached(q) ==
    /\ message[q.view] = "message_of_" \o q.view
    /\ shown[q.view].view = q.view
    /\ shown[q.view].content = q.edited
    /\ Len(shown[q.view].attachments) = 1

\* C26 (as stated): views are created only for interactive requests whose
\* generation succeeded, with exactly one output, and once on_message has
\* ended the view is attached to the edited processing message.
C26_ViewAlwaysAttached ==
    /\ SessionOnlyOnSuccess
    /\ \A r \in Requests :
        (req[r].view # None /\ req[r].pc = "done") => Attached(req[r])

\* C26 (amended): views are created only for interactive requests whose
\* generation succeeded, with exactly one output; once on_message has ended
\* the view is attached to the edited processing message when the host
\* accepted the edit, and otherwise its message reference stays unset and
\* the host shows nothing of it.
C26_SessionCreatedOnSuccess ==
    /\ SessionOnlyOnSuccess
    /\ \A r \in Requests :
        (req[r].view # None /\ req[r].pc = "done") =>
            IF req[r].reply = "Processing your image modification request..."
            THEN Attached(req[r])
            ELSE message[req[r].view] = None /\ shown[req[r].view] = NoMessage

\* an interactive request with its view attached, and a request served in
\* simple mode without a view
C26_Witness ==
    \E r1, r2 \in Requests :
        /\ req[r1].pc = "done" /\ req[r1].view # None
        /\ message[req[r1].view] # None
        /\ Len(outputs[req[r1].view]) = 1
        /\ shown[req[r1].view].view = req[r1].view
        /\ req[r2].pc = "done" /\ req[r2].bot = "ImageModificationBot"
        /\ req[r2].generation = "image" /\ ~req[r2].interactive
        /\ req[r2].view = None

\* C27: a FluxBot request whose replied message does not hold exactly one
\* image has ended with one of the three error replies, without a processing
\* message edit, a download or a generation call; FluxBot downloads or
\* generates only for exactly one image.
C27_ExactlyOneImage ==
    \A r \in Requests :
        LET q == req[r]
        IN  q.bot = "FluxBot" =>
                /\ q.images # 1 =>
                      /\ q.pc = "done"
                      /\ q.reply \in
                           {"The message you're replying to doesn't contain any images.",
                            "No valid image found in the referenced message.",
                            "Please reply to a message with exactly one image. Multiple images are not supported."}
                      /\ q.images > 1 =>
                            q.reply = "Please reply to a message with exactly one image. Multiple images are not supported."
                      /\ q.edited = None
                      /\ q.download = None
                      /\ q.generation = None
                      /\ q.generation_calls = 0
                /\ (q.download # None \/ q.generation_calls > 0) => q.images = 1

\* one FluxBot request refused for two images, another with one image that
\* reached the generation call
C27_Witness ==
    \E r1, r2 \in Requests :
        /\ req[r1].bot = "FluxBot" /\ req[r1].images = 2 /\ req[r1].pc = "done"
        /\ req[r1].generation_calls = 0
        /\ req[r2].bot = "FluxBot" /\ req[r2].images = 1
        /\ req[r2].generation_calls = 1

\* C28: an invocation of on_timeout on a view whose message reference is
\* unset disables the children, issues no edit, returns without raising and
\* leaves outputs and the displayed message as they are; after it, with the
\* timer fired, no step issues an edit or changes the displayed message,
\* even once the reference is assigned.
C28_TimeoutWithoutMessage ==
    [][\A v \in Views :
        /\ (calls'[v] = calls[v] + 1 /\ message[v] = None) =>
              /\ \A c \in Buttons : children'[v][c]
              /\ edits'[v] = edits[v]
              /\ pc'[v] = "idle"
              /\ outcome'[v] = "returned"
              /\ outputs'[v] = outputs[v]
              /\ shown'[v] = shown[v]
        /\ (HasTimedOut(v) /\ edits[v] = 0) =>
              /\ edits'[v] = 0
              /\ shown'[v] = shown[v]
              /\ shown[v].content = "original"]_vars

\* the timer fired before view.message was assigned; the reference is set
\* now and the message still shows its original content and its view
C28_Witness ==
    \E v \in Views :
        /\ HasTimedOut(v) /\ edits[v] = 0 /\ outcome[v] = "returned"
        /\ message[v] # None
        /\ outputs[v] # <<>>
        /\ \A c \in Buttons : children[v][c]
        /\ shown[v].content = "original" /\ shown[v].view = v

\* the titles an output embed can carry in an edit built from n outputs
TitlesOf(n) ==
    {"Final Output " \o ToString(i) \o "/" \o ToString(n) \o " (Timed Out)" :
        i \in 1..n}

\* C29: the edit on_timeout issues is built in the invoking step from the
\* outputs of that moment: every output embed carries the total n of that
\* moment; while the edit is awaited, an add_output changes nothing of the
\* edit, and the host, when it accepts, shows the embeds and attachments as
\* they were built.
C29_RenderFromSnapshot ==
    [][\A v \in Views :
        /\ (TimeoutStep(v) /\ outputs[v] # <<>>) =>
              /\ pc'[v] = "edit"
              /\ \A k \in 1..Len(last_edit'[v].embeds) :
                    last_edit'[v].embeds[k].title \in TitlesOf(Len(outputs[v]))
        /\ (pc[v] = "edit" /\ pc'[v] = "edit") => last_edit'[v] = last_edit[v]
        /\ (pc[v] = "edit" /\ shown'[v] # shown[v]) =>
              /\ shown'[v].embeds = last_edit[v].embeds
              /\ shown'[v].attachments = last_edit[v].attachments]_vars

\* an output added during the awaited edit: two outputs held, the accepted
\* edit shows the single embed "1/1"
C29_Witness ==
    \E v \in Views :
        /\ HasTimedOut(v) /\ calls[v] = 1 /\ Len(outputs[v]) = 2
        /\ shown[v].content = TimeoutBanner
        /\ Len(shown[v].embeds) = 1
        /\ shown[v].embeds[1].title = "Final Output 1/1 (Timed Out)"
        /\ outputs[v][1].image # None /\ outputs[v][2].image = None
        /\ fs[outputs[v][2].image_path] = "ok"

\* C30: in every reachable state the processing flag of every view is false,
\* and no response is the busy notice of process_button.
C30_ProcessingAlwaysFalse ==
    \A v \in Views :
        /\ processing[v] = FALSE
        /\ last_sent[v].content # "Already processing an image. Please wait..."

\* process_button pressed on a sent view without outputs: the stub answer
C30_Witness ==
    \E v \in Views :
        /\ sent[v] = 1 /\ message[v] # None /\ outputs[v] = <<>>
        /\ last_sent[v].content = "Image processing feature would be implemented here."
        /\ ~processing[v]

====
